---- MODULE Spec2Model ----
(***************************************************************************)
(* Model of the kernel-driver evaluation pipeline: the scoring engine      *)
(* (scoring_analytics_engine.py), the feedback generator and the iterative *)
(* training loop (training_loop.py), the configuration loader              *)
(* (evaluation_config.py), the code generator (enhanced_evaluation.py) and *)
(* the test-suite runner (evaluation_pipeline.py).                         *)
(*                                                                         *)
(* evaluate_driver_code ends with an exception on every input, because the *)
(* complexity analyzer cannot compile one of its patterns.  Spec, SpecEval, *)
(* SpecPair and SpecSuite are the entry points as they run; SpecScore,      *)
(* SpecScorePair, SpecRounds and SpecFrame apply the components that come   *)
(* after the failing analyzer to the metric records, as a caller that       *)
(* holds the records does.                                                  *)
(*                                                                         *)
(* Floating-point scores are modelled as exact rationals [n, d] in lowest  *)
(* terms.  A source text is modelled by what the regular expressions and   *)
(* substring tests of the analyzers read from it: line counts, pattern     *)
(* match counts and marker substrings.  External tools are modelled by the *)
(* outcome of their invocation.                                            *)
(***************************************************************************)
EXTENDS Integers, Sequences, FiniteSets, TLC

VARIABLES
    pc,                 \* position of the running entry point
    num_iterations,     \* run_training_loop: the argument N
    iteration,          \* run_training_loop: the loop variable
    current_feedback,   \* run_training_loop: feedback carried to the next request
    code,               \* the source text under evaluation
    tools,              \* outcomes of the external tools in the last evaluation
    evaluation_result,  \* the EvaluationResult of the last evaluation
    results,            \* run_training_loop: the trajectory
    requests,           \* generation requests sent so far
    feedback_files,     \* feedback files written so far
    files,              \* files written under results/
    summary,            \* _generate_final_report: training_summary.json
    config,             \* load_from_file: the loaded EvaluationConfig
    evaluations,        \* what a caller that evaluates twice got back, in order
    generation,         \* ask_ollama_stream: lines received, buffer, outcome
    comparison,         \* compare_models: its argument and what it returned
    suite               \* run_comprehensive_evaluation: its loops and results

vars == <<pc, num_iterations, iteration, current_feedback, code, tools,
          evaluation_result, results, requests, feedback_files, files, summary,
          config, evaluations, generation, comparison, suite>>

-----------------------------------------------------------------------------
(* Bounds of the model *)

\* largest num_iterations of a session
MaxIterations == 3

\* most "error:" / "warning:" matches in the build's stderr
MaxDiagnostics == 1

\* longest build, in seconds, that ends before the timeout
MaxElapsed == 1

\* most lines sparse writes to stderr
MaxSparseIssues == 1

\* how far a checkpatch count lies above each of its thresholds
MaxStyleExcess == 1

\* most "error" lines of cppcheck
MaxCppcheckIssues == 1

\* most matches of the buffer-overflow patterns in a source
MaxOverflowCalls == 2

\* line count of the one-line and of the long source
ShortFile == 1

LongFile == 25

\* most release calls without an acquire added to a source
MaxExtraReleases == 1

\* most lines of a streamed response
MaxLines == 3

\* most (model, result) pairs handed to compare_models
MaxModels == 3

\* most calls of test_compilation by one caller
MaxCalls == 2

\* most names mkdtemp chooses from
MaxTmpNames == 2

\* most models handed to a TestSuiteRunner
MaxSuiteModels == 2

-----------------------------------------------------------------------------
(* Program constants *)

BuildTimeout == 60

StaticDenominator == 100

StyleThreshold == 10

MajorWeight == 5

-----------------------------------------------------------------------------
(* Exact rationals standing for Python floats *)

Abs(x) == IF x < 0 THEN -x ELSE x

RECURSIVE GCD(_, _)
GCD(a, b) == IF b = 0 THEN a ELSE GCD(b, a % b)

Q(n, d) ==
    LET g == GCD(Abs(n), d)
    IN  [n |-> n \div g, d |-> d \div g]

QInt(k) == [n |-> k, d |-> 1]

QAdd(a, b) == Q(a.n * b.d + b.n * a.d, a.d * b.d)

QSub(a, b) == Q(a.n * b.d - b.n * a.d, a.d * b.d)

QMul(a, b) == Q(a.n * b.n, a.d * b.d)

QDivInt(a, k) == Q(a.n, a.d * k)

QLt(a, b) == a.n * b.d < b.n * a.d

QLe(a, b) == a.n * b.d <= b.n * a.d

QMin(a, b) == IF QLe(a, b) THEN a ELSE b

QMax(a, b) == IF QLe(b, a) THEN a ELSE b

Max(a, b) == IF a >= b THEN a ELSE b

Min(a, b) == IF a <= b THEN a ELSE b

\* Optional[T]: None is the empty sequence, a value v is <<v>>
None == <<>>

Some(v) == <<v>>

-----------------------------------------------------------------------------
(* KernelRuleEngine *)

\* self.violation_weights
violation_weights ==
    [critical |-> QInt(10), major |-> QInt(MajorWeight), minor |-> QInt(1),
     style |-> Q(1, 2)]

\* len(re.findall(pattern, code)) summed over the patterns of one category of
\* _load_api_patterns; code.api holds the match count of each pattern
ApiPatterns ==
    [memory_management |-> <<"kmalloc", "kfree", "vmalloc", "vfree">>,
     locking |-> <<"spin_lock", "spin_unlock", "mutex_lock", "mutex_unlock">>,
     interrupt_handling |-> <<"request_irq", "free_irq", "in_interrupt", "in_atomic">>]

ApiCategories == <<"memory_management", "locking", "interrupt_handling">>

ValidateMemoryUsageCountsCalls(src, pattern) ==
    IF pattern = "kmalloc" THEN src.api.kmalloc ELSE 0

\* _validate_memory_usage: only the kmalloc pattern contains 'kmalloc'; the
\* result is the number of assigned kmalloc results whose name is a kfree argument
ValidateMemoryUsage(src, pattern) ==
    IF pattern = "kmalloc" THEN src.api.paired_kmalloc ELSE 0

ValidateLockingUsage(src, pattern) ==
    Min(src.api.spin_lock, src.api.spin_unlock)

ValidateInterruptUsage(src, pattern) ==
    Min(src.api.request_irq, src.api.free_irq)

ValidateApiUsage(src, pattern, category) ==
    CASE category = "memory_management" -> ValidateMemoryUsage(src, pattern)
      [] category = "locking" -> ValidateLockingUsage(src, pattern)
      [] category = "interrupt_handling" -> ValidateInterruptUsage(src, pattern)
      [] OTHER -> 0

\* total_apis += len(matches), over the patterns of one category
RECURSIVE CountMatches(_, _, _)
CountMatches(src, patterns, i) ==
    IF i > Len(patterns)
    THEN 0
    ELSE src.api[patterns[i]] + CountMatches(src, patterns, i + 1)

\* correct_usage += self._validate_api_usage(code, pattern, category)
RECURSIVE CountValid(_, _, _, _)
CountValid(src, patterns, category, i) ==
    IF i > Len(patterns)
    THEN 0
    ELSE ValidateApiUsage(src, patterns[i], category)
         + CountValid(src, patterns, category, i + 1)

RECURSIVE TotalApis(_, _)
TotalApis(src, c) ==
    IF c > Len(ApiCategories)
    THEN 0
    ELSE CountMatches(src, ApiPatterns[ApiCategories[c]], 1) + TotalApis(src, c + 1)

RECURSIVE CorrectUsage(_, _)
CorrectUsage(src, c) ==
    IF c > Len(ApiCategories)
    THEN 0
    ELSE CountValid(src, ApiPatterns[ApiCategories[c]], ApiCategories[c], 1)
         + CorrectUsage(src, c + 1)

AnalyzeApiCompliance(src) == Q(CorrectUsage(src, 1), Max(TotalApis(src, 1), 1))

RiskScoreUncapped(matches, total_lines) ==
    Q(matches * violation_weights.major.n, Max(total_lines, 1))

\* one entry of analyze_security_risks: every match is weighted 'major'
RiskScore(matches, total_lines) ==
    QMin(Q(matches * violation_weights.major.n, Max(total_lines, 1)), QInt(1))

AnalyzeSecurityRisks(src) ==
    [buffer_overflow |-> RiskScore(src.overflow_calls, src.lines),
     null_pointer |-> RiskScore(src.null_derefs, src.lines),
     race_conditions |-> RiskScore(src.race_calls, src.lines)]

-----------------------------------------------------------------------------
(* StaticAnalyzer *)

\* A try block either returns a value or lets an exception escape
Return(v) == [raised |-> FALSE, value |-> v]

Raise(e) == [raised |-> TRUE, exception |-> e]

\* subprocess.run of an external tool: it runs to completion, cannot be
\* launched (FileNotFoundError) or exceeds its timeout (TimeoutExpired)
Invoke(tool) ==
    CASE tool.kind = "absent" -> Raise("FileNotFoundError")
      [] tool.kind = "timeout" -> Raise("TimeoutExpired")
      [] OTHER -> Return(tool)

\* try: ... except: return 0
RunSparseAnalysis(tool) ==
    LET run == Invoke(tool)
    IN  IF run.raised THEN 0 ELSE run.value.findings

RunCheckpatchAnalysis(tool) ==
    IF ~tool.script
    THEN 0
    ELSE LET run == Invoke(tool)
         IN  IF run.raised THEN 0 ELSE run.value.findings

RunCppcheckAnalysisCountsFailure(tool) ==
    LET run == Invoke(tool)
    IN  IF run.raised THEN 1 ELSE run.value.findings

RunCppcheckAnalysis(tool) ==
    LET run == Invoke(tool)
    IN  IF run.raised THEN 0 ELSE run.value.findings

ComplexityKeywords ==
    <<"if", "else", "elif", "while", "for", "switch", "case", "default",
      "catch", "&&", "||", "?">>

\* re.findall(rf'\b{keyword}\b', code) compiles its pattern first.  For the
\* keyword '?' the pattern is \b?\b, a quantifier applied to the assertion
\* \b, which re rejects with re.error("nothing to repeat") whatever the code
PatternCompiles(keyword) == keyword # "?"

\* total_complexity / max(function_count, 1), once every keyword was counted
AnalyzeCyclomaticComplexity(src) ==
    IF \A i \in DOMAIN ComplexityKeywords : PatternCompiles(ComplexityKeywords[i])
    THEN Return(Q(1 + src.keywords, Max(src.functions, 1)))
    ELSE Raise("re.error")

\* analyze_cyclomatic_complexity is called before lines_of_code is tested;
\* max(0, min(100, mi)) / 100.0, where mi is the value of the
\* maintainability formula on the text (src.mi_formula)
CalculateMaintainabilityIndex(src) ==
    LET cyclomatic_complexity == AnalyzeCyclomaticComplexity(src)
    IN  IF cyclomatic_complexity.raised
        THEN cyclomatic_complexity
        ELSE IF src.code_lines = 0
        THEN Return(QInt(0))
        ELSE Return(Q(Max(0, Min(100, src.mi_formula)), 100))

-----------------------------------------------------------------------------
(* CompilationTester *)

CompilationMetrics(success, error_count, warning_count, build_time, binary_size) ==
    [success |-> success, error_count |-> error_count,
     warning_count |-> warning_count, build_time |-> build_time,
     binary_size |-> binary_size]

TestCompilationTimeoutEscapes(build) ==
    LET run == Invoke(build)
    IN  IF ~run.raised
        THEN Return(CompilationMetrics(run.value.returncode = 0,
                                       run.value.errors, run.value.warnings,
                                       run.value.elapsed, run.value.ko))
        ELSE run

\* test_compilation: only subprocess.TimeoutExpired is caught; a make that
\* cannot be launched raises FileNotFoundError out of the method
TestCompilation(build) ==
    LET run == Invoke(build)
    IN  IF ~run.raised
        THEN Return(CompilationMetrics(run.value.returncode = 0,
                                       run.value.errors, run.value.warnings,
                                       run.value.elapsed, run.value.ko))
        ELSE IF run.exception = "TimeoutExpired"
        THEN Return(CompilationMetrics(FALSE, 1, 0, BuildTimeout, None))
        ELSE run

-----------------------------------------------------------------------------
(* ScoringEngine *)

Categories ==
    <<"compilation", "static_analysis", "security", "code_quality", "functionality">>

\* self.weights
weights ==
    [compilation |-> Q(30, 100), static_analysis |-> Q(25, 100),
     security |-> Q(25, 100), code_quality |-> Q(15, 100),
     functionality |-> Q(5, 100)]

EvaluateCompilation(build) == TestCompilation(build)

EvaluateStaticAnalysis(t, src) ==
    [sparse_issues |-> RunSparseAnalysis(t.sparse),
     checkpatch_violations |-> RunCheckpatchAnalysis(t.checkpatch),
     cppcheck_issues |-> RunCppcheckAnalysis(t.cppcheck),
     custom_rule_violations |-> 0,
     api_compliance_score |-> AnalyzeApiCompliance(src)]

\* security_risks.get('memory_leak', 0.0): analyze_security_risks has no such key
EvaluateSecurity(src) ==
    LET security_risks == AnalyzeSecurityRisks(src)
    IN  [buffer_safety_score |-> QSub(QInt(1), security_risks.buffer_overflow),
         memory_leak_risk |-> QInt(0),
         race_condition_risk |-> security_risks.race_conditions,
         input_validation_score |-> Q(8, 10),
         privilege_escalation_risk |-> Q(1, 10)]

\* CodeQualityMetrics(style_compliance=0.8, ...) of a text, given its
\* complexity and its maintainability index
CodeQualityMetrics(src, cyclomatic_complexity, maintainability_index) ==
    [style_compliance |-> Q(8, 10),
     cyclomatic_complexity |-> cyclomatic_complexity,
     function_length_avg |->
         IF src.bodies > 0 THEN Q(src.body_lines, src.bodies) ELSE QInt(0),
     comment_ratio |-> Q(src.comment_lines, Max(src.lines, 1)),
     maintainability_index |-> maintainability_index]

EvaluateCodeQuality(src) ==
    LET cyclomatic_complexity == AnalyzeCyclomaticComplexity(src)
        maintainability_index == CalculateMaintainabilityIndex(src)
    IN  IF cyclomatic_complexity.raised
        THEN cyclomatic_complexity
        ELSE IF maintainability_index.raised
        THEN maintainability_index
        ELSE Return(CodeQualityMetrics(src, cyclomatic_complexity.value,
                                       maintainability_index.value))

Count(flags) == Cardinality({i \in DOMAIN flags : flags[i]})

EvaluateFunctionality(src) ==
    LET has_read == "read" \in src.markers /\ "file_operations" \in src.markers
        has_write == "write" \in src.markers /\ "file_operations" \in src.markers
        has_open == "open" \in src.markers
        has_release == "release" \in src.markers
    IN  [basic_operations_score |->
             Q(Count(<<has_read, has_write, has_open, has_release>>), 4),
         error_handling_score |-> Q(src.error_returns, Max(src.returns, 1)),
         edge_case_handling |-> Q(6, 10),
         api_correctness |-> Q(7, 10)]

StaticScoreUnclamped(static_analysis) ==
    QSub(QInt(1),
         Q(static_analysis.sparse_issues + static_analysis.checkpatch_violations,
           StaticDenominator))

\* max(0, 1.0 - (static.sparse_issues + static.checkpatch_violations) / 100.0)
StaticScore(static_analysis) ==
    QMax(QInt(0),
         QSub(QInt(1),
              Q(static_analysis.sparse_issues
                    + static_analysis.checkpatch_violations,
                StaticDenominator)))

SecurityScoreWithRaceRisk(security) ==
    QDivInt(QAdd(QMul(security.buffer_safety_score,
                      QSub(QInt(1), security.race_condition_risk)),
                 security.input_validation_score), 2)

\* (security.buffer_safety_score + security.input_validation_score) / 2.0
SecurityScore(security) ==
    QDivInt(QAdd(security.buffer_safety_score,
                 security.input_validation_score), 2)

QualityScoreUnsaturated(code_quality) ==
    QDivInt(QAdd(code_quality.maintainability_index,
                 QMul(code_quality.comment_ratio, QInt(5))), 2)

\* (code_quality.maintainability_index + min(code_quality.comment_ratio * 5, 1.0)) / 2.0
QualityScore(code_quality) ==
    QDivInt(QAdd(code_quality.maintainability_index,
                 QMin(QMul(code_quality.comment_ratio, QInt(5)), QInt(1))), 2)

CalculateWeightedScores(compilation, static_analysis, security, code_quality, functionality) ==
    LET compilation_score == IF compilation.success THEN QInt(1) ELSE QInt(0)
        static_score == StaticScore(static_analysis)
        security_score == SecurityScore(security)
        quality_score == QualityScore(code_quality)
        func_score == functionality.basic_operations_score
    IN  [compilation |-> QMul(compilation_score, weights.compilation),
         static_analysis |-> QMul(static_score, weights.static_analysis),
         security |-> QMul(security_score, weights.security),
         code_quality |-> QMul(quality_score, weights.code_quality),
         functionality |-> QMul(func_score, weights.functionality)]

RECURSIVE SumValues(_, _)
SumValues(scores, i) ==
    IF i > Len(Categories)
    THEN QInt(0)
    ELSE QAdd(scores[Categories[i]], SumValues(scores, i + 1))

\* the EvaluationResult evaluate_driver_code builds from the five metric
\* records: weighted_scores, their sum, and the records
EvaluationResult(compilation, static_analysis, security, code_quality, functionality) ==
    LET weighted_scores ==
            CalculateWeightedScores(compilation, static_analysis, security,
                                    code_quality, functionality)
    IN  [status |-> "returned",
         completed |-> {Categories[i] : i \in DOMAIN Categories},
         compilation |-> compilation,
         static_analysis |-> static_analysis,
         security |-> security,
         code_quality |-> code_quality,
         functionality |-> functionality,
         overall_score |-> SumValues(weighted_scores, 1),
         weighted_scores |-> weighted_scores]

\* evaluate_driver_code: the analyzers run in order; an exception of one of
\* them leaves the call with the records built so far lost to the caller
\* (they are kept here as the locals of the abandoned call)
EvaluateDriverCode(t, src) ==
    LET compilation_metrics == EvaluateCompilation(t.build)
        static_analysis_metrics == EvaluateStaticAnalysis(t, src)
        security_metrics == EvaluateSecurity(src)
        code_quality_metrics == EvaluateCodeQuality(src)
        functionality_metrics == EvaluateFunctionality(src)
    IN  IF compilation_metrics.raised
        THEN [status |-> "raised", exception |-> compilation_metrics.exception,
              completed |-> {}]
        ELSE IF code_quality_metrics.raised
        THEN [status |-> "raised", exception |-> code_quality_metrics.exception,
              completed |-> {"compilation", "static_analysis", "security"},
              compilation |-> compilation_metrics.value,
              static_analysis |-> static_analysis_metrics,
              security |-> security_metrics]
        ELSE EvaluationResult(compilation_metrics.value, static_analysis_metrics,
                              security_metrics, code_quality_metrics.value,
                              functionality_metrics)

\* A CodeQualityMetrics record as a caller of the scoring components builds
\* it, _evaluate_code_quality returning none: the fields hold what their
\* formulas give on the text
QualityRecord(src) ==
    CodeQualityMetrics(src, Q(1 + src.keywords, Max(src.functions, 1)),
                       IF src.code_lines = 0
                       THEN QInt(0)
                       ELSE Q(Max(0, Min(100, src.mi_formula)), 100))

\* The scoring components applied one by one, as a caller holding the metric
\* records applies them: the four analyzers that return, the quality record
\* above, then the aggregation of evaluate_driver_code
ScoreMetrics(t, src) ==
    EvaluationResult(TestCompilation(t.build).value,
                     EvaluateStaticAnalysis(t, src),
                     EvaluateSecurity(src),
                     QualityRecord(src),
                     EvaluateFunctionality(src))

-----------------------------------------------------------------------------
(* FeedbackGenerator *)

\* One labelled section of a feedback text; args are the values formatted into it
Block(label, args) == [label |-> label, args |-> args]

\* f"{x:.2f}": the value rounded to hundredths
Format2f(q) == (2 * 100 * q.n + q.d) \div (2 * q.d)

\* _analyze_specific_issues: one line per literal anti-pattern found, in the
\* order of the checks; a line is named by the position of its check
SpecificIssueOrder ==
    <<"single_open", "single_release", "kfree_static_buffer", "class_unregister",
      "return_result">>

AnalyzeSpecificIssues(src) ==
    LET issues ==
            SelectSeq(<<1, 2, 3, 4, 5>>,
                      LAMBDA i : SpecificIssueOrder[i] \in src.antipatterns)
    IN  IF issues # <<>>
        THEN <<Block("SPECIFIC ISSUES FOUND IN YOUR CODE", issues)>>
        ELSE <<>>

When(cond, block) == IF cond THEN <<block>> ELSE <<>>

\* the conditions of the rule cascade
CompilationFailed(result) == ~result.compilation.success

SparseIssuesFound(result) == result.static_analysis.sparse_issues > 0

StyleViolationsAtThreshold(result) ==
    result.static_analysis.checkpatch_violations >= StyleThreshold

StyleViolationsExceeded(result) ==
    result.static_analysis.checkpatch_violations > StyleThreshold

ApiMisused(result) == QLt(result.static_analysis.api_compliance_score, Q(1, 2))

SecurityConcern(result) ==
    LET security_score ==
            QDivInt(QAdd(result.security.buffer_safety_score,
                         result.security.input_validation_score), 2)
    IN  QLt(security_score, Q(8, 10))

FunctionalityIncomplete(result) ==
    QLt(result.functionality.basic_operations_score, QInt(1))

ErrorHandlingWeak(result) ==
    QLt(result.functionality.error_handling_score, Q(1, 2))

GenerateDetailedFeedbackIssuesLast(src, result, iter) ==
    <<Block("CODE REVIEW FEEDBACK", <<iter, Format2f(result.overall_score)>>)>>
    \o When(CompilationFailed(result), Block("COMPILATION FAILED", <<>>))
    \o When(SparseIssuesFound(result),
            Block("STATIC ANALYSIS ISSUES",
                  <<result.static_analysis.sparse_issues>>))
    \o When(StyleViolationsExceeded(result),
            Block("CODING STYLE VIOLATIONS",
                  <<result.static_analysis.checkpatch_violations>>))
    \o When(ApiMisused(result), Block("API USAGE ERRORS", <<>>))
    \o When(SecurityConcern(result), Block("SECURITY CONCERNS", <<>>))
    \o When(FunctionalityIncomplete(result), Block("FUNCTIONALITY ISSUES", <<>>))
    \o When(ErrorHandlingWeak(result), Block("ERROR HANDLING", <<>>))
    \o <<Block("FOCUS AREAS FOR NEXT ITERATION", <<>>)>>
    \o AnalyzeSpecificIssues(src)

\* generate_detailed_feedback: the header, the blocks of the rule cascade, the
\* specific issues, the focus areas
GenerateDetailedFeedback(src, result, iter) ==
    <<Block("CODE REVIEW FEEDBACK", <<iter, Format2f(result.overall_score)>>)>>
    \o When(CompilationFailed(result), Block("COMPILATION FAILED", <<>>))
    \o When(SparseIssuesFound(result),
            Block("STATIC ANALYSIS ISSUES",
                  <<result.static_analysis.sparse_issues>>))
    \o When(StyleViolationsExceeded(result),
            Block("CODING STYLE VIOLATIONS",
                  <<result.static_analysis.checkpatch_violations>>))
    \o When(ApiMisused(result), Block("API USAGE ERRORS", <<>>))
    \o When(SecurityConcern(result), Block("SECURITY CONCERNS", <<>>))
    \o When(FunctionalityIncomplete(result), Block("FUNCTIONALITY ISSUES", <<>>))
    \o When(ErrorHandlingWeak(result), Block("ERROR HANDLING", <<>>))
    \o AnalyzeSpecificIssues(src)
    \o <<Block("FOCUS AREAS FOR NEXT ITERATION", <<>>)>>

\* "label" in feedback
Contains(text, label) == \E i \in DOMAIN text : text[i].label = label

-----------------------------------------------------------------------------
(* Source texts and tool outcomes the model draws from *)

NoApi ==
    [kmalloc |-> 0, kfree |-> 0, vmalloc |-> 0, vfree |-> 0,
     spin_lock |-> 0, spin_unlock |-> 0, mutex_lock |-> 0, mutex_unlock |-> 0,
     request_irq |-> 0, free_irq |-> 0, in_interrupt |-> 0, in_atomic |-> 0,
     paired_kmalloc |-> 0]

\* What a text calls and returns: nothing; one kmalloc that is never freed and a
\* plain "return 0"; one freed kmalloc and an error return; a lock/unlock pair
NoUsage ==
    [api |-> NoApi, returns |-> 0, error_returns |-> 0, null_derefs |-> 0,
     race_calls |-> 0, keywords |-> 0, functions |-> 0, bodies |-> 0,
     body_lines |-> 0, antipatterns |-> {}]

Usages ==
    {NoUsage,
     [NoUsage EXCEPT !.api = [NoApi EXCEPT !.kmalloc = 1], !.returns = 1,
                     !.functions = 1, !.antipatterns = {"single_open"}],
     [NoUsage EXCEPT !.api = [NoApi EXCEPT !.kmalloc = 1, !.kfree = 1,
                                           !.paired_kmalloc = 1],
                     !.returns = 2, !.error_returns = 1, !.null_derefs = 1,
                     !.keywords = 1, !.functions = 1, !.bodies = 1,
                     !.body_lines = 3],
     [NoUsage EXCEPT !.api = [NoApi EXCEPT !.spin_lock = 1, !.spin_unlock = 1],
                     !.returns = 1, !.error_returns = 1, !.race_calls = 1,
                     !.keywords = 2, !.functions = 2,
                     !.antipatterns = {"kfree_static_buffer", "return_result"}]}

MarkerSets ==
    {{}, {"read", "write"}, {"open", "release"},
     {"read", "write", "open", "release", "file_operations"}}

MiFormulaValues == {-10, 50, 120}

LineCounts == {0, ShortFile, LongFile}

\* lines, the lines counted as comments, the non-blank lines not starting with
\* "//", and the value of the maintainability formula (read only when there is
\* such a line)
Shapes ==
    {s \in [lines : LineCounts, comment_lines : 0..LongFile,
            code_lines : 0..LongFile, mi_formula : MiFormulaValues \cup {0}] :
        /\ s.comment_lines \in {0, s.lines \div 5, s.lines}
        /\ s.code_lines \in {0, s.lines - s.comment_lines}
        /\ (s.code_lines = 0) = (s.mi_formula = 0)}

\* a text of blank lines only matches no pattern
Blank(s) == s.comment_lines = 0 /\ s.code_lines = 0

Source(s, overflow, markers, u) ==
    [lines |-> s.lines, comment_lines |-> s.comment_lines,
     code_lines |-> s.code_lines, mi_formula |-> s.mi_formula,
     overflow_calls |-> overflow, markers |-> markers, api |-> u.api,
     returns |-> u.returns, error_returns |-> u.error_returns,
     null_derefs |-> u.null_derefs, race_calls |-> u.race_calls,
     keywords |-> u.keywords, functions |-> u.functions, bodies |-> u.bodies,
     body_lines |-> u.body_lines, antipatterns |-> u.antipatterns]

\* one-line texts made of tracked calls only: an unassigned vmalloc, a
\* request_irq that is never freed, a mutex_lock/mutex_unlock pair, a
\* request_irq/free_irq pair
ApiOnlyUsages ==
    {[NoUsage EXCEPT !.api = [NoApi EXCEPT !.vmalloc = 1]],
     [NoUsage EXCEPT !.api = [NoApi EXCEPT !.request_irq = 1]],
     [NoUsage EXCEPT !.api = [NoApi EXCEPT !.mutex_lock = 1, !.mutex_unlock = 1]],
     [NoUsage EXCEPT !.api = [NoApi EXCEPT !.request_irq = 1, !.free_irq = 1]]}

ApiOnlySources ==
    {Source([lines |-> ShortFile, comment_lines |-> 0, code_lines |-> ShortFile,
             mi_formula |-> 120], 0, {}, u) : u \in ApiOnlyUsages}

Sources ==
    {Source(s, 0, {}, NoUsage) : s \in {s \in Shapes : Blank(s)}}
    \cup ApiOnlySources
    \cup {Source(x[1], x[2], x[3], x[4]) :
            x \in {s \in Shapes : ~Blank(s)} \X (0..MaxOverflowCalls)
                  \X MarkerSets \X Usages}

\* the empty text
EmptySource == Source([lines |-> 0, comment_lines |-> 0, code_lines |-> 0,
                       mi_formula |-> 0], 0, {}, NoUsage)

\* a one-line text that is no C code, such as a transport error message
ErrorText == Source([lines |-> ShortFile, comment_lines |-> 0,
                     code_lines |-> ShortFile, mi_formula |-> 120], 0, {}, NoUsage)

\* a commented driver with all four operations and no unsafe call
CompleteDriver ==
    Source([lines |-> LongFile, comment_lines |-> LongFile \div 5,
            code_lines |-> LongFile - LongFile \div 5, mi_formula |-> 120], 0,
           {"read", "write", "open", "release", "file_operations"},
           CHOOSE u \in Usages : u.api.paired_kmalloc = 1)

\* a driver without comments that calls strcpy and leaks its allocation
UnsafeDriver ==
    Source([lines |-> LongFile, comment_lines |-> 0, code_lines |-> LongFile,
            mi_formula |-> 50], MaxOverflowCalls, {"open", "release"},
           CHOOSE u \in Usages : u.api.kmalloc = 1 /\ u.api.kfree = 0)

ReferenceSources == {EmptySource, ErrorText, CompleteDriver, UnsafeDriver}

Tool(kind, findings) == [kind |-> kind, findings |-> findings]

\* make: launched and finished with an exit status, stderr and possibly
\* driver.ko; killed at the timeout; or not launchable
Build(kind, returncode, errors, warnings, elapsed, ko) ==
    [kind |-> kind, returncode |-> returncode, errors |-> errors,
     warnings |-> warnings, elapsed |-> elapsed, ko |-> ko]

BuildTimedOut == Build("timeout", 0, 0, 0, 0, None)

BuildNotLaunched == Build("absent", 0, 0, 0, 0, None)

KoSizes == {None, Some(4096)}

BuildOutcomes ==
    {Build("ran", x[1], x[2], x[3], x[4], x[5]) :
        x \in {y \in {0, 2} \X (0..MaxDiagnostics) \X (0..MaxDiagnostics)
                     \X (0..MaxElapsed) \X KoSizes :
                   y[2] + y[3] <= MaxDiagnostics}}
    \cup {BuildTimedOut, BuildNotLaunched}

ToolFailures == {Tool("absent", 0), Tool("timeout", 0)}

SparseOutcomes == ToolFailures \cup {Tool("ran", n) : n \in 0..MaxSparseIssues}

StyleCounts ==
    {base + k : base \in {0, StyleThreshold, StaticDenominator - 1},
                k \in 0..MaxStyleExcess}

Checkpatch(script, kind, findings) ==
    [script |-> script, kind |-> kind, findings |-> findings]

\* checkpatch.pl missing; or present, and perl absent, timing out or running
CheckpatchOutcomes ==
    {Checkpatch(FALSE, "absent", 0), Checkpatch(TRUE, "absent", 0),
     Checkpatch(TRUE, "timeout", 0)}
    \cup {Checkpatch(TRUE, "ran", n) : n \in StyleCounts}

CppcheckOutcomes == ToolFailures \cup {Tool("ran", n) : n \in 0..MaxCppcheckIssues}

Tools(build, sparse, checkpatch, cppcheck) ==
    [build |-> build, sparse |-> sparse, checkpatch |-> checkpatch,
     cppcheck |-> cppcheck]

ToolOutcomes ==
    {Tools(x[1], x[2], x[3], x[4]) :
        x \in BuildOutcomes \X SparseOutcomes \X CheckpatchOutcomes
              \X CppcheckOutcomes}

\* a machine without the static tools, and one where they run and report
NoStaticTools(build) ==
    Tools(build, Tool("absent", 0), Checkpatch(FALSE, "absent", 0),
          Tool("absent", 0))

StaticTools(build) ==
    Tools(build, Tool("ran", 1), Checkpatch(TRUE, "ran", StyleThreshold + 1),
          Tool("ran", 1))

ReferenceBuilds ==
    {Build("ran", 0, 0, 0, 0, Some(4096)), Build("ran", 2, 1, 0, 0, None),
     BuildTimedOut, BuildNotLaunched}

ReferenceTools ==
    {NoStaticTools(b) : b \in ReferenceBuilds}
    \cup {StaticTools(b) : b \in ReferenceBuilds}

\* every tool outcome on the reference sources, every source under the
\* reference tool outcomes
Scenarios ==
    {[tools |-> x[1], src |-> x[2]] : x \in ToolOutcomes \X ReferenceSources}
    \cup {[tools |-> x[1], src |-> x[2]] : x \in ReferenceTools \X Sources}

-----------------------------------------------------------------------------
(* IterativeTrainingLoop *)

\* the sources the generator returns in a session and the machine it runs on
GeneratedSources == {ErrorText, CompleteDriver, UnsafeDriver}

SessionTools ==
    {NoStaticTools(b) : b \in ReferenceBuilds}
    \cup {StaticTools(CHOOSE b \in ReferenceBuilds : b.kind = "ran" /\ b.returncode = 0)}

\* the machines run_training_loop is started on
MachineTools == ReferenceTools \cup {NoStaticTools(b) : b \in BuildOutcomes}

GeneratePromptAlwaysConditioned(iter, feedback) ==
    [base |-> "test_config.prompt", feedback |-> <<feedback>>]

\* _generate_code_with_feedback: the prompt of a request is the test prompt and
\* the feedback sections it is conditioned on
GeneratePrompt(iter, feedback) ==
    IF iter = 1
    THEN [base |-> "test_config.prompt", feedback |-> <<>>]
    ELSE [base |-> "test_config.prompt", feedback |-> <<feedback>>]

\* iteration_result
IterationResult(iter, result) ==
    [iteration |-> iter,
     overall_score |-> result.overall_score,
     compilation_success |-> result.compilation.success,
     static_analysis_score |-> result.weighted_scores.static_analysis,
     security_score |-> result.weighted_scores.security,
     code_quality_score |-> result.weighted_scores.code_quality,
     functionality_score |-> result.weighted_scores.functionality,
     code_file |-> <<"code", iter>>,
     result_file |-> <<"results", iter>>]

AppendRecordShared(rs, record) == [k \in 1..(Len(rs) + 1) |-> record]

\* iteration_result is a dict created in this iteration, and
\* results.append(iteration_result) puts it after the records of the earlier
\* iterations, which are other objects
AppendRecord(rs, record) == Append(rs, record)

RECURSIVE FirstCompileOneBased(_, _)
FirstCompileOneBased(rs, i) ==
    IF i > Len(rs)
    THEN None
    ELSE IF rs[i].compilation_success
         THEN Some(i)
         ELSE FirstCompileOneBased(rs, i + 1)

\* next((i for i, success in enumerate(compilation_progress) if success), None)
RECURSIVE FirstCompile(_, _)
FirstCompile(rs, i) ==
    IF i > Len(rs)
    THEN None
    ELSE IF rs[i].compilation_success THEN Some(i - 1) ELSE FirstCompile(rs, i + 1)

RECURSIVE MaxByScoreLast(_, _, _)
MaxByScoreLast(rs, i, best) ==
    IF i > Len(rs)
    THEN best
    ELSE MaxByScoreLast(rs, i + 1,
                        IF QLe(best.overall_score, rs[i].overall_score)
                        THEN rs[i] ELSE best)

\* max(results, key=lambda x: x['overall_score']): the first maximal element
RECURSIVE MaxByScore(_, _, _)
MaxByScore(rs, i, best) ==
    IF i > Len(rs)
    THEN best
    ELSE MaxByScore(rs, i + 1,
                    IF QLt(best.overall_score, rs[i].overall_score)
                    THEN rs[i] ELSE best)

Improvement(rs) == QSub(rs[Len(rs)].overall_score, rs[1].overall_score)

\* summary of _generate_final_report; results[0] raises IndexError on an empty list
GenerateFinalReport(rs) ==
    IF rs = <<>>
    THEN Raise("IndexError")
    ELSE Return([iterations |-> rs,
                 improvement |-> Improvement(rs),
                 first_successful_compilation |-> FirstCompile(rs, 1),
                 best_iteration |-> MaxByScore(rs, 2, rs[1]).iteration])

NoResult == [status |-> "none"]

Idle ==
    /\ iteration = 0
    /\ current_feedback = <<>>
    /\ code = EmptySource
    /\ tools = NoStaticTools(BuildNotLaunched)
    /\ evaluation_result = NoResult
    /\ results = <<>>
    /\ requests = <<>>
    /\ feedback_files = <<>>
    /\ files = {}
    /\ summary = None
    /\ config = None
    /\ evaluations = <<>>
    /\ generation = None
    /\ comparison = None
    /\ suite = None

Init ==
    /\ pc = "loop"
    /\ num_iterations \in 0..MaxIterations
    /\ Idle

\* for iteration in range(1, num_iterations + 1)
NextIteration ==
    /\ pc = "loop"
    /\ iteration < num_iterations
    /\ iteration' = iteration + 1
    /\ pc' = "generate"
    /\ UNCHANGED <<num_iterations, current_feedback, code, tools,
                   evaluation_result, results, requests, feedback_files,
                   files, summary, config, evaluations,
                   generation, comparison, suite>>

\* code = self._generate_code_with_feedback(iteration, current_feedback), then
\* the code file is written
GenerateCode ==
    /\ pc = "generate"
    /\ requests' = Append(requests, [iteration |-> iteration,
                                     prompt |-> GeneratePrompt(iteration,
                                                               current_feedback)])
    /\ code' \in GeneratedSources
    /\ files' = files \cup {<<"code", iteration>>}
    /\ pc' = "evaluate"
    /\ UNCHANGED <<num_iterations, iteration, current_feedback, tools,
                   evaluation_result, results, feedback_files, summary, config,
                   evaluations,
                   generation, comparison, suite>>

AfterExportAlwaysFeedback(iter, n) == "feedback"

\* if iteration < num_iterations: the feedback is generated before the record
\* is appended
AfterExport(iter, n) == IF iter < n THEN "feedback" ELSE "append"

\* evaluation_result = ...scoring_engine.evaluate_driver_code(code_file), then
\* export_results; an exception of the evaluation leaves run_training_loop
EvaluateCode ==
    /\ pc = "evaluate"
    /\ \E t \in MachineTools :
        /\ tools' = t
        /\ evaluation_result' = EvaluateDriverCode(t, code)
    /\ IF evaluation_result'.status = "raised"
       THEN pc' = "raised" /\ files' = files
       ELSE /\ files' = files \cup {<<"results", iteration>>}
            /\ pc' = AfterExport(iteration, num_iterations)
    /\ UNCHANGED <<num_iterations, iteration, current_feedback, code, results,
                   requests, feedback_files, summary, config, evaluations,
                   generation, comparison, suite>>

\* if iteration < num_iterations: current_feedback = generate_detailed_feedback(...)
StoreFeedback ==
    /\ pc = "feedback"
    /\ current_feedback' =
           GenerateDetailedFeedback(code, evaluation_result, iteration)
    /\ feedback_files' = Append(feedback_files,
                                [iteration |-> iteration,
                                 text |-> current_feedback'])
    /\ files' = files \cup {<<"feedback", iteration>>}
    /\ pc' = "append"
    /\ UNCHANGED <<num_iterations, iteration, code, tools, evaluation_result,
                   results, requests, summary, config, evaluations,
                   generation, comparison, suite>>

\* results.append(iteration_result)
AppendResult ==
    /\ pc = "append"
    /\ results' = AppendRecord(results, IterationResult(iteration, evaluation_result))
    /\ pc' = "loop"
    /\ UNCHANGED <<num_iterations, iteration, current_feedback, code, tools,
                   evaluation_result, requests, feedback_files, files, summary,
                   config, evaluations,
                   generation, comparison, suite>>

\* self._generate_final_report(results); return results
FinalReport ==
    /\ pc = "loop"
    /\ iteration >= num_iterations
    /\ LET report == GenerateFinalReport(results)
       IN  IF report.raised
           THEN pc' = "raised" /\ summary' = summary /\ files' = files
           ELSE /\ pc' = "returned"
                /\ summary' = Some(report.value)
                /\ files' = files \cup {<<"training_summary", 0>>}
    /\ UNCHANGED <<num_iterations, iteration, current_feedback, code, tools,
                   evaluation_result, results, requests, feedback_files, config,
                   evaluations,
                   generation, comparison, suite>>

\* no evaluation returns, so no run reaches the feedback and append steps
Next ==
    \/ NextIteration
    \/ GenerateCode
    \/ EvaluateCode
    \/ FinalReport

Spec == Init /\ [][Next]_vars

-----------------------------------------------------------------------------
(* The steps of run_training_loop around the evaluation, driven with the    *)
(* results the scoring components give on the metric records                *)

\* the step after the code file is written, given an evaluation result:
\* export_results, then the branch on iteration < num_iterations
ScoreCode ==
    /\ pc = "evaluate"
    /\ \E t \in SessionTools :
        /\ ~TestCompilation(t.build).raised
        /\ tools' = t
        /\ evaluation_result' = ScoreMetrics(t, code)
    /\ files' = files \cup {<<"results", iteration>>}
    /\ pc' = AfterExport(iteration, num_iterations)
    /\ UNCHANGED <<num_iterations, iteration, current_feedback, code, results,
                   requests, feedback_files, summary, config, evaluations,
                   generation, comparison, suite>>

NextRounds ==
    \/ NextIteration
    \/ GenerateCode
    \/ ScoreCode
    \/ StoreFeedback
    \/ AppendResult
    \/ FinalReport

SpecRounds == Init /\ [][NextRounds]_vars

-----------------------------------------------------------------------------
(* One evaluation of a source file, and the feedback on its result *)

InitEval ==
    /\ pc = "evaluate"
    /\ num_iterations = 0
    /\ Idle

\* ScoringEngine.evaluate_driver_code(code_path)
EvaluateFile ==
    /\ pc = "evaluate"
    /\ \E sc \in Scenarios :
        /\ code' = sc.src
        /\ tools' = sc.tools
        /\ evaluation_result' = EvaluateDriverCode(sc.tools, sc.src)
    /\ pc' = IF evaluation_result'.status = "raised" THEN "raised" ELSE "evaluated"
    /\ UNCHANGED <<num_iterations, iteration, current_feedback, results,
                   requests, feedback_files, files, summary, config,
                   evaluations,
                   generation, comparison, suite>>

\* FeedbackGenerator.generate_detailed_feedback(code, evaluation_result, 1)
ReviewFile ==
    /\ pc = "evaluated"
    /\ current_feedback' = GenerateDetailedFeedback(code, evaluation_result, 1)
    /\ pc' = "reviewed"
    /\ UNCHANGED <<num_iterations, iteration, code, tools, evaluation_result,
                   results, requests, feedback_files, files, summary, config,
                   evaluations,
                   generation, comparison, suite>>

\* no evaluation returns, so no caller has a result to review
NextEval == EvaluateFile

SpecEval == InitEval /\ [][NextEval]_vars

-----------------------------------------------------------------------------
(* The scoring components on one source file, and the feedback on the result *)

\* the analyzers, _calculate_weighted_scores and the EvaluationResult
ScoreFile ==
    /\ pc = "evaluate"
    /\ \E sc \in Scenarios :
        /\ ~TestCompilation(sc.tools.build).raised
        /\ code' = sc.src
        /\ tools' = sc.tools
        /\ evaluation_result' = ScoreMetrics(sc.tools, sc.src)
    /\ pc' = "evaluated"
    /\ UNCHANGED <<num_iterations, iteration, current_feedback, results,
                   requests, feedback_files, files, summary, config,
                   evaluations,
                   generation, comparison, suite>>

NextScore == ScoreFile \/ ReviewFile

SpecScore == InitEval /\ [][NextScore]_vars

-----------------------------------------------------------------------------
(* Two evaluations by one caller: the same file again, or another file on   *)
(* the same machine                                                          *)

\* the tracked calls of the compared sources: a freed kmalloc, a
\* spin_lock/spin_unlock pair, a kmalloc that is never freed
PairApis ==
    {[NoApi EXCEPT !.kmalloc = 1, !.kfree = 1, !.paired_kmalloc = 1],
     [NoApi EXCEPT !.spin_lock = 1, !.spin_unlock = 1],
     [NoApi EXCEPT !.kmalloc = 1]}

\* race-prone calls and error returns (of two returns) of the compared sources
PairRisks == {<<0, 1>>, <<1, 0>>, <<1, 1>>}

\* CompleteDriver with these calls, and with kfree and spin_unlock calls on
\* names that no kmalloc assigns and no spin_lock takes
PairSources ==
    {[CompleteDriver EXCEPT
         !.api = [x[1] EXCEPT !.kfree = @ + x[2], !.spin_unlock = @ + x[3]],
         !.race_calls = x[4][1], !.error_returns = x[4][2]] :
        x \in PairApis \X (0..MaxExtraReleases) \X (0..MaxExtraReleases)
              \X PairRisks}

PairBuilds ==
    {Build("ran", 0, 0, 0, e, Some(4096)) : e \in 0..MaxElapsed}
    \cup {BuildTimedOut}

PairTools ==
    {Tools(x[1], Tool("ran", x[2]), Checkpatch(TRUE, "ran", x[3]),
           Tool("ran", x[4])) :
        x \in PairBuilds \X {0, 1} \X StyleCounts \X {0, 1}}

Evaluation(t, src) ==
    [code |-> src, tools |-> t, result |-> EvaluateDriverCode(t, src)]

InitPair ==
    /\ pc = "first"
    /\ num_iterations = 0
    /\ Idle

\* the first evaluate_driver_code(code_path)
EvaluateFirst ==
    /\ pc = "first"
    /\ \E t \in PairTools, src \in PairSources :
        /\ t = StaticTools(Build("ran", 0, 0, 0, 0, Some(4096)))
             \/ src = CompleteDriver
        /\ code' = src
        /\ tools' = t
        /\ evaluation_result' = EvaluateDriverCode(t, src)
        /\ evaluations' = <<Evaluation(t, src)>>
    /\ pc' = "second"
    /\ UNCHANGED <<num_iterations, iteration, current_feedback, results,
                   requests, feedback_files, files, summary, config,
                   generation, comparison, suite>>

\* evaluate_driver_code on the same file and machine: make, the static tools
\* and the file are as before, build_time is what the clock measures this time
EvaluateAgain ==
    /\ pc = "second"
    /\ \E e \in 0..MaxElapsed :
        LET t == IF tools.build.kind = "ran"
                 THEN [tools EXCEPT !.build.elapsed = e]
                 ELSE tools
        IN  /\ tools' = t
            /\ evaluation_result' = EvaluateDriverCode(t, code)
            /\ evaluations' = Append(evaluations, Evaluation(t, code))
    /\ pc' = "repeated"
    /\ UNCHANGED <<num_iterations, iteration, current_feedback, code, results,
                   requests, feedback_files, files, summary, config,
                   generation, comparison, suite>>

\* evaluate_driver_code on another file on the same machine
EvaluateOtherSource ==
    /\ pc = "second"
    /\ \E src \in PairSources :
        /\ code' = src
        /\ evaluation_result' = EvaluateDriverCode(tools, src)
        /\ evaluations' = Append(evaluations, Evaluation(tools, src))
    /\ pc' = "compared"
    /\ UNCHANGED <<num_iterations, iteration, current_feedback, tools, results,
                   requests, feedback_files, files, summary, config,
                   generation, comparison, suite>>

NextPair ==
    \/ EvaluateFirst
    \/ EvaluateAgain
    \/ EvaluateOtherSource

SpecPair == InitPair /\ [][NextPair]_vars

-----------------------------------------------------------------------------
(* The scoring components on two inputs of one caller *)

Score(t, src) == [code |-> src, tools |-> t, result |-> ScoreMetrics(t, src)]

ScoreFirst ==
    /\ pc = "first"
    /\ \E t \in PairTools, src \in PairSources :
        /\ t = StaticTools(Build("ran", 0, 0, 0, 0, Some(4096)))
             \/ src = CompleteDriver
        /\ code' = src
        /\ tools' = t
        /\ evaluation_result' = ScoreMetrics(t, src)
        /\ evaluations' = <<Score(t, src)>>
    /\ pc' = "second"
    /\ UNCHANGED <<num_iterations, iteration, current_feedback, results,
                   requests, feedback_files, files, summary, config,
                   generation, comparison, suite>>

\* the same file where the tools report otherwise
ScoreOtherTools ==
    /\ pc = "second"
    /\ \E t \in PairTools :
        /\ tools' = t
        /\ evaluation_result' = ScoreMetrics(t, code)
        /\ evaluations' = Append(evaluations, Score(t, code))
    /\ pc' = "compared"
    /\ UNCHANGED <<num_iterations, iteration, current_feedback, code, results,
                   requests, feedback_files, files, summary, config,
                   generation, comparison, suite>>

\* another file on the same machine
ScoreOtherSource ==
    /\ pc = "second"
    /\ \E src \in PairSources :
        /\ code' = src
        /\ evaluation_result' = ScoreMetrics(tools, src)
        /\ evaluations' = Append(evaluations, Score(tools, src))
    /\ pc' = "compared"
    /\ UNCHANGED <<num_iterations, iteration, current_feedback, tools, results,
                   requests, feedback_files, files, summary, config,
                   generation, comparison, suite>>

NextScorePair ==
    \/ ScoreFirst
    \/ ScoreOtherTools
    \/ ScoreOtherSource

SpecScorePair == InitPair /\ [][NextScorePair]_vars

-----------------------------------------------------------------------------
(* ask_ollama_stream and OllamaInterface.generate_driver_code: the same code *)

\* a string is the sequence of its characters
Contents == {<<>>, <<"a">>, <<"b">>}

\* a line of the response body: an empty keep-alive line; a JSON object with
\* message.content; a JSON object without "message"; a JSON object whose
\* "message" is null; a line that is no JSON
Line(kind, content) == [kind |-> kind, content |-> content]

Lines ==
    {Line("empty", <<>>), Line("no_message", <<>>), Line("null_message", <<>>),
     Line("malformed", <<>>)}
    \cup {Line("chunk", c) : c \in Contents}

\* the body of the loop over response.iter_lines(), on the buffer so far
HandleLine(buffer, line) ==
    CASE line.kind = "empty" -> Return(buffer)
      [] line.kind = "malformed" -> Raise("JSONDecodeError")
      [] line.kind = "null_message" -> Raise("AttributeError")
      [] line.kind = "no_message" -> Return(buffer)
      [] OTHER -> Return(IF line.content # <<>>
                         THEN Append(buffer, line.content)
                         ELSE buffer)

\* "".join(buffer)
RECURSIVE Join(_)
Join(buffer) ==
    IF buffer = <<>> THEN <<>> ELSE Head(buffer) \o Join(Tail(buffer))

\* the exceptions that are requests.RequestException
RequestExceptions == {"ConnectionError", "HTTPError", "ChunkedEncodingError"}

ErrorString(e) == <<"Error communicating with Ollama: ", e>>

\* except requests.RequestException as e: return f"Error communicating ..."
ExceptRequestException(outcome) ==
    IF outcome.raised /\ outcome.exception \in RequestExceptions
    THEN Return(ErrorString(outcome.exception))
    ELSE outcome

Generation(transport, lines, buffer, outcome) ==
    [transport |-> transport, lines |-> lines, buffer |-> buffer,
     outcome |-> outcome]

InitGenerate ==
    /\ pc = "post"
    /\ num_iterations = 0
    /\ Idle

\* requests.post(...) and response.raise_for_status(): the connection is
\* refused, the status is an error, or the body starts to arrive
PostRequest ==
    /\ pc = "post"
    /\ \E transport \in {"refused", "error_status", "ok"} :
        LET outcome ==
                CASE transport = "refused" ->
                        ExceptRequestException(Raise("ConnectionError"))
                  [] transport = "error_status" ->
                        ExceptRequestException(Raise("HTTPError"))
                  [] OTHER -> None
        IN  /\ generation' = Generation(transport, <<>>, <<>>, outcome)
            /\ pc' = IF outcome = None THEN "stream" ELSE "generated"
    /\ UNCHANGED <<num_iterations, iteration, current_feedback, code, tools,
                   evaluation_result, results, requests, feedback_files, files,
                   summary, config, evaluations, comparison, suite>>

\* one line of response.iter_lines()
ReceiveLine ==
    /\ pc = "stream"
    /\ Len(generation.lines) < MaxLines
    /\ \E line \in Lines :
        LET handled == ExceptRequestException(HandleLine(generation.buffer, line))
        IN  IF handled.raised
            THEN /\ generation' = [generation EXCEPT
                                      !.lines = Append(@, line),
                                      !.outcome = handled]
                 /\ pc' = "raised"
            ELSE /\ generation' = [generation EXCEPT
                                      !.lines = Append(@, line),
                                      !.buffer = handled.value]
                 /\ pc' = "stream"
    /\ UNCHANGED <<num_iterations, iteration, current_feedback, code, tools,
                   evaluation_result, results, requests, feedback_files, files,
                   summary, config, evaluations, comparison, suite>>

\* the connection breaks in mid-stream: iter_lines raises ChunkedEncodingError
StreamBroken ==
    /\ pc = "stream"
    /\ generation' = [generation EXCEPT
                         !.transport = "broken",
                         !.outcome =
                             ExceptRequestException(Raise("ChunkedEncodingError"))]
    /\ pc' = "generated"
    /\ UNCHANGED <<num_iterations, iteration, current_feedback, code, tools,
                   evaluation_result, results, requests, feedback_files, files,
                   summary, config, evaluations, comparison, suite>>

\* the body ends: return "".join(buffer)
EndOfStream ==
    /\ pc = "stream"
    /\ generation' = [generation EXCEPT
                         !.outcome = Return(Join(generation.buffer))]
    /\ pc' = "generated"
    /\ UNCHANGED <<num_iterations, iteration, current_feedback, code, tools,
                   evaluation_result, results, requests, feedback_files, files,
                   summary, config, evaluations, comparison, suite>>

NextGenerate ==
    \/ PostRequest
    \/ ReceiveLine
    \/ StreamBroken
    \/ EndOfStream

SpecGenerate == InitGenerate /\ [][NextGenerate]_vars

-----------------------------------------------------------------------------
(* ScoringEngine.compare_models *)

\* one entry of comparison['model_rankings']
Ranking(model_name, result) ==
    [model |-> model_name,
     overall_score |-> result.overall_score,
     compilation_success |-> result.compilation.success,
     security_score |->
         QDivInt(QAdd(result.security.buffer_safety_score,
                      result.security.input_validation_score), 2)]

\* list.sort(key=overall_score, reverse=True) is stable: an entry goes behind
\* the entries before it whose score is not smaller
RECURSIVE InsertRanking(_, _)
InsertRanking(sorted, entry) ==
    IF sorted = <<>>
    THEN <<entry>>
    ELSE IF QLt(Head(sorted).overall_score, entry.overall_score)
         THEN <<entry>> \o sorted
         ELSE <<Head(sorted)>> \o InsertRanking(Tail(sorted), entry)

RECURSIVE SortRankings(_, _)
SortRankings(pairs, n) ==
    IF n = 0
    THEN <<>>
    ELSE InsertRanking(SortRankings(pairs, n - 1),
                       Ranking(pairs[n].model, pairs[n].result))

\* the loop over results of one category: best_score starts at 0 and
\* best_model at None, and only a score > best_score replaces them
RECURSIVE BestModel(_, _, _, _, _)
BestModel(pairs, category, i, best_score, best_model) ==
    IF i > Len(pairs)
    THEN best_model
    ELSE LET score == pairs[i].result.weighted_scores[category]
         IN  IF QLt(best_score, score)
             THEN BestModel(pairs, category, i + 1, score, Some(pairs[i].model))
             ELSE BestModel(pairs, category, i + 1, best_score, best_model)

CompareModels(pairs) ==
    [model_rankings |-> SortRankings(pairs, Len(pairs)),
     category_winners |->
         [c \in {Categories[i] : i \in DOMAIN Categories} |->
             BestModel(pairs, c, 1, QInt(0), None)]]

Models == {"qwen2.5", "llama3"}

\* results of a complete driver that compiles, of one whose build fails, of
\* an error text whose build times out, of the empty file with all the tools
ComparedResults ==
    {ScoreMetrics(NoStaticTools(Build("ran", 0, 0, 0, 0, Some(4096))),
                  CompleteDriver),
     ScoreMetrics(NoStaticTools(Build("ran", 2, 1, 0, 0, None)), UnsafeDriver),
     ScoreMetrics(NoStaticTools(BuildTimedOut), ErrorText),
     ScoreMetrics(StaticTools(Build("ran", 0, 0, 0, 0, Some(4096))),
                  EmptySource)}

ResultLists ==
    UNION {[1..n -> [model : Models, result : ComparedResults]] : n \in 0..MaxModels}

InitCompare ==
    /\ pc = "compare"
    /\ num_iterations = 0
    /\ Idle

CompareResults ==
    /\ pc = "compare"
    /\ \E pairs \in ResultLists :
        comparison' = [results |-> pairs, value |-> CompareModels(pairs)]
    /\ pc' = "ranked"
    /\ UNCHANGED <<num_iterations, iteration, current_feedback, code, tools,
                   evaluation_result, results, requests, feedback_files, files,
                   summary, config, evaluations, generation,
                   suite>>

NextCompare == CompareResults

SpecCompare == InitCompare /\ [][NextCompare]_vars

-----------------------------------------------------------------------------
(* The callers that hold results after they were built: the rounds of the   *)
(* training loop, or a comparison of models                                  *)

InitFrame == Init \/ InitCompare

NextFrame == NextRounds \/ NextCompare

SpecFrame == InitFrame /\ [][NextFrame]_vars

-----------------------------------------------------------------------------
(* EvaluationConfig.load_from_file *)

WeightFields ==
    {"compilation", "static_analysis", "security", "code_quality", "functionality"}

\* the defaults of the ScoringWeights dataclass
DefaultWeights ==
    [compilation |-> Q(30, 100), static_analysis |-> Q(25, 100),
     security |-> Q(25, 100), code_quality |-> Q(15, 100),
     functionality |-> Q(5, 100)]

\* ScoringWeights(**d): a field missing from d keeps its default, a key that
\* is no field raises TypeError
ScoringWeights(d) ==
    IF DOMAIN d \subseteq WeightFields
    THEN Return([f \in WeightFields |->
                    IF f \in DOMAIN d THEN d[f] ELSE DefaultWeights[f]])
    ELSE Raise("TypeError")

DefaultToolConfig ==
    [sparse_enabled |-> TRUE, checkpatch_enabled |-> TRUE,
     cppcheck_enabled |-> TRUE, custom_rules_enabled |-> TRUE,
     timeout_seconds |-> 30]

EvaluationConfig(scoring_weights, tool_config) ==
    [scoring_weights |-> scoring_weights, tool_config |-> tool_config,
     max_build_time |-> 60]

CreateDefault == EvaluationConfig(ScoringWeights(<<>>).value, DefaultToolConfig)

\* load_from_file: a missing file gives the default configuration, a file
\* that is no JSON raises, any weights of a JSON document are taken as they are
LoadFromFile(file) ==
    CASE file.kind = "missing" -> Return(CreateDefault)
      [] file.kind = "malformed" -> Raise("JSONDecodeError")
      [] OTHER ->
            LET scoring_weights == ScoringWeights(file.scoring_weights)
            IN  IF scoring_weights.raised
                THEN scoring_weights
                ELSE Return(EvaluationConfig(scoring_weights.value,
                                             DefaultToolConfig))

WeightValues == {Q(5, 100), Q(30, 100), Q(1, 2)}

WeightKeys == WeightFields \cup {"performance"}

\* the scoring_weights objects of the configuration files: at most two keys,
\* or all five fields
WeightDocuments ==
    UNION {[keys -> WeightValues] :
              keys \in {k \in SUBSET WeightKeys :
                           Cardinality(k) <= 2 \/ k = WeightFields}}

ConfigFiles ==
    {[kind |-> "missing", scoring_weights |-> <<>>],
     [kind |-> "malformed", scoring_weights |-> <<>>]}
    \cup {[kind |-> "json", scoring_weights |-> d] : d \in WeightDocuments}

InitConfig ==
    /\ pc = "load"
    /\ num_iterations = 0
    /\ Idle

LoadConfig ==
    /\ pc = "load"
    /\ \E file \in ConfigFiles :
        LET loaded == LoadFromFile(file)
        IN  /\ config' = [file |-> file, loaded |-> loaded]
            /\ pc' = IF loaded.raised THEN "raised" ELSE "loaded"
    /\ UNCHANGED <<num_iterations, iteration, current_feedback, code, tools,
                   evaluation_result, results, requests, feedback_files, files,
                   summary, evaluations,
                   generation, comparison, suite>>

NextConfig == LoadConfig

SpecConfig == InitConfig /\ [][NextConfig]_vars

-----------------------------------------------------------------------------
(* CompilationTester.test_compilation step by step, with the file system *)

\* a file system entry: a temporary directory d (name ".") or a file in it
Entry(d, name) == <<"tmp", d, name>>

Directory(d) == Entry(d, ".")

Directories(fs) == {e[2] : e \in {x \in fs : x[3] = "."}}

TmpNames == 0..MaxTmpNames

\* a temporary directory of another process, which the caller never owns
OtherDirectory == CHOOSE d \in TmpNames : \A e \in TmpNames : d <= e

OtherFiles == {Directory(OtherDirectory), Entry(OtherDirectory, "driver.c")}

ExitTemporaryDirectoryOnReturn(fs, d, outcome) ==
    IF outcome.raised THEN fs ELSE {e \in fs : e[2] # d}

\* leaving the block of `with tempfile.TemporaryDirectory() as tmpdir`, by a
\* return or by an exception: the directory and all it holds are removed
ExitTemporaryDirectory(fs, d, outcome) == {e \in fs : e[2] # d}

CurrentCall == evaluations[Len(evaluations)]

InitCompile ==
    /\ pc = "enter"
    /\ num_iterations = 0
    /\ iteration = 0
    /\ current_feedback = <<>>
    /\ code = EmptySource
    /\ tools = NoStaticTools(BuildNotLaunched)
    /\ evaluation_result = NoResult
    /\ results = <<>>
    /\ requests = <<>>
    /\ feedback_files = <<>>
    /\ files = OtherFiles
    /\ summary = None
    /\ config = None
    /\ evaluations = <<>>
    /\ generation = None
    /\ comparison = None
    /\ suite = None

\* with tempfile.TemporaryDirectory() as tmpdir: mkdtemp creates a directory
\* under a name that does not exist
EnterTemporaryDirectory ==
    /\ pc = "enter"
    /\ Len(evaluations) < MaxCalls
    /\ \E d \in TmpNames \ Directories(files), readable \in BOOLEAN,
          b \in ReferenceBuilds :
        /\ files' = files \cup {Directory(d)}
        /\ evaluations' = Append(evaluations,
                                 [tmpdir |-> d, readable |-> readable,
                                  outcome |-> None])
        /\ tools' = NoStaticTools(b)
    /\ pc' = "copy"
    /\ UNCHANGED <<num_iterations, iteration, current_feedback, code,
                   evaluation_result, results, requests, feedback_files,
                   summary, config, generation, comparison, suite>>

\* the Makefile is written, then the source is copied to driver.c; open() of
\* a code_path that cannot be read raises out of the method
CopySource ==
    /\ pc = "copy"
    /\ LET d == CurrentCall.tmpdir
           outcome == Raise("FileNotFoundError")
       IN  IF CurrentCall.readable
           THEN /\ files' = files \cup {Entry(d, "Makefile"), Entry(d, "driver.c")}
                /\ evaluations' = evaluations
                /\ pc' = "make"
           ELSE /\ files' = ExitTemporaryDirectory(
                                files \cup {Entry(d, "Makefile")}, d, outcome)
                /\ evaluations' =
                       [evaluations EXCEPT ![Len(evaluations)].outcome = Some(outcome)]
                /\ pc' = "enter"
    /\ UNCHANGED <<num_iterations, iteration, current_feedback, code, tools,
                   evaluation_result, results, requests, feedback_files,
                   summary, config, generation, comparison, suite>>

\* subprocess.run(["make"], cwd=tmpdir, ...) and the return or the exception
\* that ends the call
RunMake ==
    /\ pc = "make"
    /\ LET d == CurrentCall.tmpdir
           outcome == TestCompilation(tools.build)
           built == IF tools.build.kind = "ran" /\ tools.build.ko # None
                    THEN {Entry(d, "driver.ko")}
                    ELSE {}
       IN  /\ files' = ExitTemporaryDirectory(files \cup built, d, outcome)
           /\ evaluations' =
                  [evaluations EXCEPT ![Len(evaluations)].outcome = Some(outcome)]
    /\ pc' = "enter"
    /\ UNCHANGED <<num_iterations, iteration, current_feedback, code, tools,
                   evaluation_result, results, requests, feedback_files,
                   summary, config, generation, comparison, suite>>

NextCompile ==
    \/ EnterTemporaryDirectory
    \/ CopySource
    \/ RunMake

SpecCompile == InitCompile /\ [][NextCompile]_vars

-----------------------------------------------------------------------------
(* TestSuiteRunner.run_comprehensive_evaluation *)

\* driver_types x complexity_levels in the order of the nested loops
Combinations ==
    <<<<"character_device", "basic">>, <<"character_device", "intermediate">>,
      <<"block_device", "basic">>, <<"block_device", "intermediate">>,
      <<"network_device", "basic">>, <<"network_device", "intermediate">>>>

\* what generate_driver_code gives: code, the error string of a transport
\* failure, or the exception of a malformed chunk
GeneratorOutcomes ==
    {Return(CompleteDriver), Return(ErrorText), Raise("JSONDecodeError")}

\* run_single_evaluation: generate, write the code file, evaluate, export;
\* it catches nothing
RunSingleEvaluation(generated, t) ==
    IF generated.raised
    THEN generated
    ELSE LET result == EvaluateDriverCode(t, generated.value)
         IN  IF result.status = "raised"
             THEN Raise(result.exception)
             ELSE Return(result)

ExceptRequestExceptionOnly(exception) == exception \in RequestExceptions

\* except Exception as e: every exception but KeyboardInterrupt, SystemExit
\* and GeneratorExit is caught
ExceptException(exception) ==
    exception \notin {"KeyboardInterrupt", "SystemExit", "GeneratorExit"}

ModelLists == UNION {[1..n -> Models] : n \in 0..MaxSuiteModels}

\* all_results[model] = model_results
Assign(all_results, model, model_results) ==
    [m \in DOMAIN all_results \cup {model} |->
        IF m = model THEN model_results ELSE all_results[m]]

InitSuite ==
    /\ pc = "suite"
    /\ num_iterations = 0
    /\ iteration = 0
    /\ current_feedback = <<>>
    /\ code = EmptySource
    /\ tools = NoStaticTools(BuildNotLaunched)
    /\ evaluation_result = NoResult
    /\ results = <<>>
    /\ requests = <<>>
    /\ feedback_files = <<>>
    /\ files = {}
    /\ summary = None
    /\ config = None
    /\ evaluations = <<>>
    /\ generation = None
    /\ comparison = None
    /\ \E models \in ModelLists :
          suite = [models |-> models, model |-> 1, combination |-> 1,
                   model_results |-> <<>>, all_results |-> <<>>,
                   attempts |-> <<>>, last |-> None]

\* one pass of the innermost loop: the try block and its handler; after the
\* last combination of a model, all_results[model] = model_results
EvaluateCombination ==
    /\ pc = "suite"
    /\ suite.model <= Len(suite.models)
    /\ \E generated \in GeneratorOutcomes, b \in {BuildNotLaunched, BuildTimedOut} :
        LET model == suite.models[suite.model]
            outcome == RunSingleEvaluation(generated, NoStaticTools(b))
            model_results ==
                IF outcome.raised
                THEN suite.model_results
                ELSE Append(suite.model_results, outcome.value)
            attempt == [model |-> suite.model,
                        combination |-> Combinations[suite.combination],
                        result |-> IF outcome.raised THEN None
                                   ELSE Some(outcome.value)]
            final == suite.combination = Len(Combinations)
        IN  IF outcome.raised /\ ~ExceptException(outcome.exception)
            THEN /\ pc' = "raised"
                 /\ suite' = [suite EXCEPT !.attempts = Append(@, attempt),
                                           !.last = Some(outcome)]
            ELSE /\ pc' = "suite"
                 /\ suite' =
                        [suite EXCEPT
                            !.attempts = Append(@, attempt),
                            !.last = Some(outcome),
                            !.model_results = IF final THEN <<>> ELSE model_results,
                            !.all_results =
                                IF final THEN Assign(@, model, model_results) ELSE @,
                            !.combination = IF final THEN 1 ELSE @ + 1,
                            !.model = IF final THEN @ + 1 ELSE @]
    /\ UNCHANGED <<num_iterations, iteration, current_feedback, code, tools,
                   evaluation_result, results, requests, feedback_files, files,
                   summary, config, evaluations, generation, comparison>>

\* return all_results
ReturnAllResults ==
    /\ pc = "suite"
    /\ suite.model > Len(suite.models)
    /\ pc' = "returned"
    /\ UNCHANGED <<num_iterations, iteration, current_feedback, code, tools,
                   evaluation_result, results, requests, feedback_files, files,
                   summary, config, evaluations, generation, comparison, suite>>

NextSuite == EvaluateCombination \/ ReturnAllResults

SpecSuite == InitSuite /\ [][NextSuite]_vars

-----------------------------------------------------------------------------
(* Claims *)

AllCategories == {Categories[i] : i \in DOMAIN Categories}

Evaluated == pc \in {"evaluated", "reviewed", "raised"}

Returned == evaluation_result.status = "returned"

InUnit(q) == QLe(QInt(0), q) /\ QLe(q, QInt(1))

RECURSIVE SumWeights(_, _)
SumWeights(w, fields) ==
    IF fields = {}
    THEN QInt(0)
    ELSE LET f == CHOOSE x \in fields : TRUE
         IN  QAdd(w[f], SumWeights(w, fields \ {f}))

\* C2: every configuration the loader returns has weights summing to 1.0 (a
\* file whose weights do not sum to 1.0 is rejected)
C2_LoadedWeightsSumToOne ==
    pc = "loaded" =>
        SumWeights(config.loaded.value.scoring_weights, WeightFields) = QInt(1)

\* C3: whatever the build tool and the static tools do, evaluate_driver_code
\* returns a result in which all five analyzers have completed
C3_EvaluationAlwaysReturns ==
    Evaluated => Returned /\ evaluation_result.completed = AllCategories

\* C4: a build that exceeds its timeout is not raised by test_compilation but
\* reported as success=false, error_count=1, warning_count=0, build_time=60,
\* no binary_size, and the evaluation goes on to the analyzers after it: the
\* timeout is not the exception of any evaluation
C4_TimeoutIsReported ==
    (Evaluated /\ tools.build.kind = "timeout") =>
        /\ ~TestCompilation(tools.build).raised
        /\ "compilation" \in evaluation_result.completed
        /\ evaluation_result.compilation =
               [success |-> FALSE, error_count |-> 1, warning_count |-> 0,
                build_time |-> BuildTimeout, binary_size |-> None]
        /\ {"static_analysis", "security"} \subseteq evaluation_result.completed
        /\ evaluation_result.status = "raised" =>
              evaluation_result.exception # "TimeoutExpired"

\* the build timed out and sparse, which ran after it, reported its findings
C4_Witness ==
    /\ Evaluated
    /\ tools.build.kind = "timeout"
    /\ tools.sparse.kind = "ran"
    /\ "static_analysis" \in evaluation_result.completed
    /\ evaluation_result.static_analysis.sparse_issues > 0
    /\ ~evaluation_result.compilation.success

SparseFailed == tools.sparse.kind \in {"absent", "timeout"}

CheckpatchFailed ==
    ~tools.checkpatch.script \/ tools.checkpatch.kind \in {"absent", "timeout"}

CppcheckFailed == tools.cppcheck.kind \in {"absent", "timeout"}

\* C5: a static tool that is absent, lacks its ruleset file or times out
\* contributes an issue count of 0, whatever the other two tools do, and no
\* evaluation raises because of a static tool
C5_FailedToolCountsZero ==
    Evaluated =>
        /\ "static_analysis" \notin evaluation_result.completed =>
              tools.build.kind = "absent"
        /\ evaluation_result.status = "raised" =>
              evaluation_result.exception \in {"FileNotFoundError", "re.error"}
        /\ "static_analysis" \in evaluation_result.completed =>
              /\ SparseFailed => evaluation_result.static_analysis.sparse_issues = 0
              /\ CheckpatchFailed =>
                    evaluation_result.static_analysis.checkpatch_violations = 0
              /\ CppcheckFailed =>
                    evaluation_result.static_analysis.cppcheck_issues = 0

\* sparse is absent while checkpatch and cppcheck run and report
C5_Witness ==
    /\ Evaluated
    /\ "static_analysis" \in evaluation_result.completed
    /\ tools.sparse.kind = "absent"
    /\ evaluation_result.static_analysis.sparse_issues = 0
    /\ evaluation_result.static_analysis.checkpatch_violations > 0
    /\ evaluation_result.static_analysis.cppcheck_issues > 0

Mean(a, b) == QDivInt(QAdd(a, b), 2)

\* C6: the feedback text holds a labelled block iff the block's trigger holds
C6_BlocksIffTriggers ==
    pc = "reviewed" =>
        LET r == evaluation_result
            f == current_feedback
        IN  /\ Contains(f, "COMPILATION FAILED") <=> ~r.compilation.success
            /\ Contains(f, "STATIC ANALYSIS ISSUES")
                 <=> r.static_analysis.sparse_issues > 0
            /\ Contains(f, "CODING STYLE VIOLATIONS")
                 <=> r.static_analysis.checkpatch_violations > 10
            /\ Contains(f, "API USAGE ERRORS")
                 <=> QLt(r.static_analysis.api_compliance_score, Q(1, 2))
            /\ Contains(f, "SECURITY CONCERNS")
                 <=> QLt(Mean(r.security.buffer_safety_score,
                              r.security.input_validation_score), Q(8, 10))
            /\ Contains(f, "FUNCTIONALITY ISSUES")
                 <=> QLt(r.functionality.basic_operations_score, QInt(1))
            /\ Contains(f, "ERROR HANDLING")
                 <=> QLt(r.functionality.error_handling_score, Q(1, 2))

\* a compiling source with exactly 10 style violations: neither block appears
C6_Witness ==
    /\ pc = "reviewed"
    /\ evaluation_result.compilation.success
    /\ evaluation_result.static_analysis.checkpatch_violations = 10
    /\ ~Contains(current_feedback, "COMPILATION FAILED")
    /\ ~Contains(current_feedback, "CODING STYLE VIOLATIONS")
    /\ Contains(current_feedback, "SECURITY CONCERNS")

Ended == pc \in {"returned", "raised"}

\* C8: a session with N >= 1 iterations performs N rounds and returns a
\* trajectory of N records with iteration indices 1..N
C8_ExactlyNRounds ==
    (num_iterations >= 1 /\ Ended) =>
        /\ pc = "returned"
        /\ Len(requests) = num_iterations
        /\ Len(results) = num_iterations
        /\ \A k \in DOMAIN results : results[k].iteration = k

\* C9: in a session with N >= 1 iterations feedback is generated for every
\* iteration k < N and not for iteration N: N-1 feedback texts in all
C9_FeedbackForAllButLast ==
    (num_iterations >= 1 /\ Ended) =>
        /\ Len(feedback_files) = num_iterations - 1
        /\ \A k \in DOMAIN feedback_files : feedback_files[k].iteration = k

ApiScore == evaluation_result.static_analysis.api_compliance_score

\* C12: a source with no call of any tracked API gets api_compliance_score 1.0
\* and its feedback has no API USAGE ERRORS block
C12_NoCallsIsCompliant ==
    (pc = "reviewed" /\ TotalApis(code, 1) = 0) =>
        /\ ApiScore = QInt(1)
        /\ ~Contains(current_feedback, "API USAGE ERRORS")

\* C13: analyze_api_compliance returns a value in [0,1]
C13_ComplianceWithinUnit ==
    Returned => InUnit(ApiScore)

\* the only tracked call of the text is one allocation, which is not released
OnlyUnmatchedAllocate(src) ==
    /\ TotalApis(src, 1) = 1
    /\ src.api.kmalloc + src.api.vmalloc = 1
    /\ src.api.paired_kmalloc = 0

\* C15: a source whose only tracked call is an unreleased allocation gets
\* api_compliance_score 0.0 and its feedback has the API USAGE ERRORS block
C15_LeakIsReported ==
    (pc = "reviewed" /\ OnlyUnmatchedAllocate(code)) =>
        /\ ApiScore = QInt(0)
        /\ Contains(current_feedback, "API USAGE ERRORS")

\* a driver that compiles and whose one kmalloc result is never passed to kfree
C15_Witness ==
    /\ pc = "reviewed"
    /\ evaluation_result.compilation.success
    /\ code.api.kmalloc = 1 /\ code.api.kfree = 0
    /\ OnlyUnmatchedAllocate(code)
    /\ Contains(current_feedback, "API USAGE ERRORS")

First == evaluations[1]

Second == evaluations[2]

ReleaseCalls == {"kfree", "vfree", "spin_unlock", "mutex_unlock", "free_irq"}

\* b is a with release calls added that pair with no acquire: every other
\* count of the text is the same, and so is the number of matched pairs
OnlyUnmatchedReleasesAdded(a, b) ==
    /\ a # b
    /\ [a EXCEPT !.api = b.api] = b
    /\ \A f \in DOMAIN a.api \ ReleaseCalls : a.api[f] = b.api[f]
    /\ \A f \in ReleaseCalls : a.api[f] <= b.api[f]
    /\ Min(a.api.spin_lock, a.api.spin_unlock) = Min(b.api.spin_lock, b.api.spin_unlock)
    /\ Min(a.api.request_irq, a.api.free_irq) = Min(b.api.request_irq, b.api.free_irq)

\* C14: adding release calls that match no acquire does not lower the value
\* of analyze_api_compliance
C14_ExtraReleasesCarryNoPenalty ==
    (pc = "compared" /\ OnlyUnmatchedReleasesAdded(First.code, Second.code)) =>
        QLe(First.result.static_analysis.api_compliance_score,
            Second.result.static_analysis.api_compliance_score)

\* the two metric sets differ in checkpatch_violations at most
SameButCheckpatch(r1, r2) ==
    /\ r1.compilation = r2.compilation
    /\ [r1.static_analysis EXCEPT !.checkpatch_violations = 0]
         = [r2.static_analysis EXCEPT !.checkpatch_violations = 0]
    /\ r1.security = r2.security
    /\ r1.code_quality = r2.code_quality
    /\ r1.functionality = r2.functionality

\* C16: of two metric sets that differ only in checkpatch_violations, the one
\* with more violations has no greater static and overall score; a total of
\* 100 issues or more scores 0 in the static category
C16_StaticScoreMonotone ==
    /\ \A i \in DOMAIN evaluations :
          LET r == evaluations[i].result
          IN  r.static_analysis.sparse_issues
                  + r.static_analysis.checkpatch_violations >= 100
                  => r.weighted_scores.static_analysis = QInt(0)
    /\ (/\ pc = "compared"
        /\ SameButCheckpatch(First.result, Second.result)
        /\ First.result.static_analysis.checkpatch_violations
              <= Second.result.static_analysis.checkpatch_violations) =>
          /\ QLe(Second.result.weighted_scores.static_analysis,
                 First.result.weighted_scores.static_analysis)
          /\ QLe(Second.result.overall_score, First.result.overall_score)

\* the same file with 11 style violations and then with 100 or more: the
\* score falls, and the static category of the second result is 0
C16_Witness ==
    /\ pc = "compared"
    /\ SameButCheckpatch(First.result, Second.result)
    /\ First.result.static_analysis.checkpatch_violations = 11
    /\ Second.result.static_analysis.checkpatch_violations >= 100
    /\ QLt(Second.result.overall_score, First.result.overall_score)
    /\ Second.result.weighted_scores.static_analysis = QInt(0)

\* the metrics of a result without the sub-metrics that carry no weight
WeightedMetrics(r) ==
    [compilation |-> r.compilation,
     static_analysis |->
         [sparse_issues |-> r.static_analysis.sparse_issues,
          checkpatch_violations |-> r.static_analysis.checkpatch_violations,
          custom_rule_violations |-> r.static_analysis.custom_rule_violations],
     security |->
         [buffer_safety_score |-> r.security.buffer_safety_score,
          input_validation_score |-> r.security.input_validation_score],
     code_quality |-> r.code_quality,
     functionality |->
         [basic_operations_score |-> r.functionality.basic_operations_score]]

\* C17: two results that differ only in race_condition_risk, memory_leak_risk,
\* privilege_escalation_risk, error_handling_score, edge_case_handling,
\* api_correctness, cppcheck_issues or api_compliance_score have the same
\* weighted_scores and the same overall_score
C17_UnweightedMetricsIgnored ==
    (pc = "compared" /\ WeightedMetrics(First.result) = WeightedMetrics(Second.result)) =>
        /\ First.result.weighted_scores = Second.result.weighted_scores
        /\ First.result.overall_score = Second.result.overall_score

\* two sources that differ in race-prone calls, error returns and tracked API
\* calls, evaluated on the same machine
C17_Witness ==
    /\ pc = "compared"
    /\ WeightedMetrics(First.result) = WeightedMetrics(Second.result)
    /\ First.result.security.race_condition_risk
         # Second.result.security.race_condition_risk
    /\ First.result.functionality.error_handling_score
         # Second.result.functionality.error_handling_score
    /\ First.result.static_analysis.api_compliance_score
         # Second.result.static_analysis.api_compliance_score
    /\ QLt(QInt(0), First.result.security.buffer_safety_score)

\* C18: evaluating the same file again, with the tools behaving as before,
\* returns a result, as the first evaluation did, identical in every field
C18_EvaluationIdempotent ==
    pc = "repeated" =>
        /\ First.result.status = "returned"
        /\ Second.result.status = "returned"
        /\ Second.result = First.result

\* the content of every chunk line received, in order
RECURSIVE ReceivedText(_)
ReceivedText(lines) ==
    IF lines = <<>>
    THEN <<>>
    ELSE (IF Head(lines).kind = "chunk" THEN Head(lines).content ELSE <<>>)
         \o ReceivedText(Tail(lines))

IsErrorString(text) ==
    Len(text) = 2 /\ text[1] = "Error communicating with Ollama: "

\* C19: the generator call never raises; it returns the concatenation of all
\* content chunks when the whole response was received and an error string,
\* never the chunks so far, when anything failed
C19_CompleteTextOrErrorString ==
    pc \in {"generated", "raised"} =>
        /\ pc = "generated"
        /\ ~generation.outcome.raised
        /\ IF /\ generation.transport = "ok"
              /\ \A i \in DOMAIN generation.lines :
                    generation.lines[i].kind \notin {"malformed", "null_message"}
           THEN generation.outcome.value = ReceivedText(generation.lines)
           ELSE IsErrorString(generation.outcome.value)

\* C20: for a non-empty list, the winner of each category is a listed model
\* whose weighted score in the category is the highest of the list, and
\* model_rankings has one entry per pair in non-increasing overall_score
C20_WinnersAndRankings ==
    (pc = "ranked" /\ comparison.results # <<>>) =>
        LET pairs == comparison.results
            value == comparison.value
        IN  /\ \A c \in AllCategories :
                  \E i \in DOMAIN pairs :
                      /\ value.category_winners[c] = Some(pairs[i].model)
                      /\ \A j \in DOMAIN pairs :
                            QLe(pairs[j].result.weighted_scores[c],
                                pairs[i].result.weighted_scores[c])
            /\ Len(value.model_rankings) = Len(pairs)
            /\ \A k \in 1..(Len(pairs) - 1) :
                  QLe(value.model_rankings[k + 1].overall_score,
                      value.model_rankings[k].overall_score)

\* C21: a result whose build succeeded, with no sparse and no style finding,
\* no buffer-overflow pattern, all operations present, maintainability_index
\* 1.0 and comment_ratio >= 0.2 has overall_score 1.0
C21_MaximalScoreReachable ==
    (/\ Returned
     /\ evaluation_result.compilation.success
     /\ evaluation_result.static_analysis.sparse_issues = 0
     /\ evaluation_result.static_analysis.checkpatch_violations = 0
     /\ code.overflow_calls = 0
     /\ evaluation_result.functionality.basic_operations_score = QInt(1)
     /\ evaluation_result.code_quality.maintainability_index = QInt(1)
     /\ QLe(Q(1, 5), evaluation_result.code_quality.comment_ratio)) =>
        evaluation_result.overall_score = QInt(1)

\* C22: every evaluation that reaches the code-quality analyzer obtains a
\* cyclomatic_complexity, and it is at least 1
C22_ComplexityAtLeastOne ==
    (Evaluated /\ "security" \in evaluation_result.completed) =>
        /\ "code_quality" \in evaluation_result.completed
        /\ QLe(QInt(1), evaluation_result.code_quality.cyclomatic_complexity)

\* C23: during a call of test_compilation its temporary directory is one
\* that the call created and that no other owner holds, and between calls no
\* directory of a call is left, however the call ended; the directories of
\* others are untouched
C23_TemporaryDirectoryReleased ==
    /\ {e \in files : e[2] = OtherDirectory} = OtherFiles
    /\ pc = "enter" => files = OtherFiles
    /\ pc # "enter" =>
          /\ CurrentCall.tmpdir # OtherDirectory
          /\ Directories(files) = {OtherDirectory, CurrentCall.tmpdir}

\* a call ended by the exception of a make that cannot be launched, after a
\* call whose build timed out: neither directory is left
C23_Witness ==
    /\ pc = "enter"
    /\ Len(evaluations) = 2
    /\ evaluations[1].outcome = Some(Return(CompilationMetrics(FALSE, 1, 0, BuildTimeout, None)))
    /\ evaluations[2].outcome = Some(Raise("FileNotFoundError"))
    /\ evaluations[2].readable
    /\ files = OtherFiles

\* the matches of the patterns of each risk category in a text
RiskMatches(src) ==
    [buffer_overflow |-> src.overflow_calls,
     null_pointer |-> src.null_derefs,
     race_conditions |-> src.race_calls]

BlockOrder ==
    <<"CODE REVIEW FEEDBACK", "COMPILATION FAILED", "STATIC ANALYSIS ISSUES",
      "CODING STYLE VIOLATIONS", "API USAGE ERRORS", "SECURITY CONCERNS",
      "FUNCTIONALITY ISSUES", "ERROR HANDLING",
      "SPECIFIC ISSUES FOUND IN YOUR CODE", "FOCUS AREAS FOR NEXT ITERATION">>

Rank(label) == CHOOSE i \in DOMAIN BlockOrder : BlockOrder[i] = label

\* C25: the blocks of a feedback text appear in the fixed order compilation,
\* static analysis, style, API usage, security, functionality, error handling,
\* specific issues; the specific issues are there only when an anti-pattern
\* is found in the code; the text ends with the focus areas
C25_BlocksInFixedOrder ==
    pc = "reviewed" =>
        LET f == current_feedback
        IN  /\ \A i \in DOMAIN f : \E k \in DOMAIN BlockOrder : BlockOrder[k] = f[i].label
            /\ \A i, j \in DOMAIN f : i < j => Rank(f[i].label) < Rank(f[j].label)
            /\ Contains(f, "SPECIFIC ISSUES FOUND IN YOUR CODE")
                  => code.antipatterns # {}
            /\ f[Len(f)].label = "FOCUS AREAS FOR NEXT ITERATION"

\* a text with the compilation, style, API, security and error-handling
\* blocks but no sparse block, followed by the specific issues
C25_Witness ==
    /\ pc = "reviewed"
    /\ Contains(current_feedback, "COMPILATION FAILED")
    /\ ~Contains(current_feedback, "STATIC ANALYSIS ISSUES")
    /\ Contains(current_feedback, "CODING STYLE VIOLATIONS")
    /\ Contains(current_feedback, "SECURITY CONCERNS")
    /\ Contains(current_feedback, "ERROR HANDLING")
    /\ Contains(current_feedback, "SPECIFIC ISSUES FOUND IN YOUR CODE")
    /\ current_feedback[Len(current_feedback) - 1].label
          = "SPECIFIC ISSUES FOUND IN YOUR CODE"

\* C26: a generator output that is no code, such as a transport error
\* string, is evaluated into a complete result, and the session that holds
\* it ends with num_iterations records and a summary
C26_ErrorTextIsEvaluated ==
    (code = ErrorText /\ iteration >= 1 /\ pc \notin {"generate", "evaluate"}) =>
        /\ evaluation_result.status = "returned"
        /\ evaluation_result.completed = AllCategories
        /\ Ended =>
              /\ pc = "returned"
              /\ Len(results) = num_iterations
              /\ summary # None

RECURSIVE CompletedResults(_, _, _)
CompletedResults(attempts, from, to) ==
    IF from > to
    THEN <<>>
    ELSE attempts[from].result \o CompletedResults(attempts, from + 1, to)

\* C29: no exception of a combination leaves run_comprehensive_evaluation:
\* when it returns, every combination of every model was attempted in the
\* order of the loops, all_results has an entry for every requested model,
\* and the entry of a model holds, in order, the results of its combinations
\* that completed, 6 at most
C29_FailuresAreConfined ==
    /\ pc \in {"suite", "returned"}
    /\ pc = "returned" =>
          LET n == Len(Combinations)
              models == suite.models
              attempts == suite.attempts
          IN  /\ Len(attempts) = n * Len(models)
              /\ \A j \in DOMAIN attempts :
                    /\ attempts[j].model = ((j - 1) \div n) + 1
                    /\ attempts[j].combination = Combinations[((j - 1) % n) + 1]
              /\ DOMAIN suite.all_results = {models[i] : i \in DOMAIN models}
              /\ \A i \in DOMAIN models :
                    /\ Len(suite.all_results[models[i]]) <= 6
                    /\ (\A k \in DOMAIN models : models[k] = models[i] => k <= i) =>
                          suite.all_results[models[i]] =
                              CompletedResults(attempts, n * (i - 1) + 1, n * i)

\* two models were requested; the first combination of the first model
\* ended with an exception, and so did the last one of the second model; the
\* suite has returned with an entry for each
C29_Witness ==
    /\ pc = "returned"
    /\ Len(suite.models) = 2
    /\ suite.models[1] # suite.models[2]
    /\ suite.attempts[1].result = None
    /\ Len(suite.attempts) = 12
    /\ suite.last # None
    /\ suite.last[1].raised
    /\ suite.last[1].exception = "re.error"
    /\ DOMAIN suite.all_results = Models

\* C30: every session ends by returning a trajectory of num_iterations
\* records, the session of 0 iterations with the empty one
C30_TerminatesWithTrajectory ==
    Ended =>
        /\ pc = "returned"
        /\ Len(results) = num_iterations

====
